---- MODULE Spec2Model ----
(***************************************************************************)
(* Model of replicate_trial: the token-bucket RateLimiter                   *)
(* (src/src/replicate_trial/rate_limiter.py) and the rate-gated,            *)
(* retrying ReplicateProcessor.process_text                                 *)
(* (src/src/replicate_trial/replicate_processor.py).                        *)
(*                                                                          *)
(* Time is a discrete clock of ticks.  Token amounts are fixed-point:       *)
(* one token is Scale units, `tokens` holds units, and `rate` is the        *)
(* number of units refilled per tick (the code's floats are taken as exact  *)
(* rationals on this grid).                                                 *)
(***************************************************************************)
EXTENDS Integers, Sequences, FiniteSets, TLC

(* ---- bounds of the model ---- *)
Scale == 2          \* units per token (the grid of fractional tokens)
MaxBurst == 2       \* largest max_burst a limiter is constructed with
MaxTime == 2        \* the clock stops advancing here

Threads == {1, 2}   \* threads sharing one limiter
SeqThreads == {1}   \* the caller of a single-threaded run
NoThread == 0
None == -1          \* Python's None for the optional timeout argument
Rates == {1, Scale} \* refill rates: 1/Scale token per tick, one token per tick
ArgTimeouts == {None, 0, 1}

Min(a, b) == IF a <= b THEN a ELSE b

VARIABLES
    rate,           \* RateLimiter.rate (units per tick)
    max_tokens,     \* RateLimiter.max_tokens (tokens)
    tokens,         \* RateLimiter.tokens (units)
    last_update,    \* RateLimiter.last_update
    lock,           \* RateLimiter.lock: the thread holding it, or NoThread
    clock,          \* time.time()
    pc,             \* per thread: position in acquire / release
    call,           \* per thread: the call in progress
                    \*   [op, n, timeout, start_time, now, ret, seen, expect]
    snap,           \* per thread: <<tokens, last_update>> seen on taking the lock
    refills,        \* per thread: _add_tokens runs made by the call in progress
    grant,          \* the latest granted acquire: [n, now, rel], rel = a release followed
    epochBase,      \* tokens in the bucket after the latest refill or release that added any
    epochGranted,   \* tokens granted by acquire since then
    seqTokens,      \* tokens of the same calls run one at a time, in lock order
    seqLast,        \* last_update of the same calls run one at a time
    pt,             \* the process_text call in progress (ReplicateProcessor)
    others,         \* other process_text calls between their acquire and release
    held,           \* granted acquires of process_text not yet released
    winStart,       \* start of the observed time window, or None
    admitted,       \* calls admitted past the rate gate within the window
    ck,             \* the _chunk_text call in progress
    rp,             \* the attempts on one chunk: response buffer, parse, repair
    cli,            \* a run of the program: a CLI command, or a caller constructing
                    \*   a ReplicateProcessor
    sa              \* the attempts on one chunk: the stream read against the clock

rlVars == <<rate, max_tokens, tokens, last_update, lock, clock>>
thVars == <<pc, call, snap, refills>>
histVars == <<grant, epochBase, epochGranted, seqTokens, seqLast>>
ptVars == <<pt, others, held, winStart, admitted>>
fnVars == <<ck, rp, cli, sa>>
vars == <<rlVars, thVars, histVars, ptVars, fnVars>>

(* ---- RateLimiter: the arithmetic of each statement ---- *)

\* a refill that forgets the cap
AddTokensUncapped(tok, last, now) == tok + (now - last) * rate

\* a refill that adds whole tokens only
AddTokensWhole(tok, last, now) ==
    Min(max_tokens * Scale, tok + (((now - last) * rate) \div Scale) * Scale)

\* rate_limiter.py:48-52  tokens after _add_tokens
AddTokens(tok, last, now) ==
    Min(max_tokens * Scale, tok + (now - last) * rate)

\* the argument check off by one
ExceedsMaxOffByOne(k) == k > max_tokens + 1

\* rate_limiter.py:69
ExceedsMax(k) == k > max_tokens

\* the critical section entered without waiting for the lock
LockNeverHeld == TRUE

\* rate_limiter.py:74, 94  `with self.lock` may be entered
LockAvailable == lock = NoThread

\* a strict comparison in the availability check
HasEnoughStrict(tok, k) == tok > k * Scale

\* rate_limiter.py:77
HasEnough(tok, k) == tok >= k * Scale

\* rate_limiter.py:78
Deduct(tok, k) == tok - k * Scale

\* a refusal that polls again until the timeout has elapsed
AfterRefusalPolls(timeout, elapsed) ==
    IF timeout # None /\ elapsed < timeout THEN "t48" ELSE "unlock"

\* rate_limiter.py:81-85  where acquire goes when tokens are insufficient:
\* both branches return False
AfterRefusal(timeout, elapsed) ==
    IF timeout # None
    THEN IF elapsed >= timeout THEN "unlock" ELSE "unlock"
    ELSE "unlock"

\* a release that forgets the cap
ReleaseAddUncapped(tok) == tok + Scale

\* rate_limiter.py:96
ReleaseAdd(tok) == Min(max_tokens * Scale, tok + Scale)

NoGrant == [n |-> 0, now |-> 0, rel |-> FALSE]

NoCall == [op |-> "none", n |-> 0, timeout |-> None, start_time |-> 0,
           now |-> 0, ret |-> "none", seen |-> NoGrant, expect |-> "none"]

\* rate_limiter.py:55-85  acquire run as one step at time `now`
AcquireAtomic(tok, last, now, k) ==
    IF ExceedsMax(k)
    THEN [tokens |-> tok, last_update |-> last, ret |-> "raise"]
    ELSE LET refilled == AddTokens(tok, last, now) IN
         IF HasEnough(refilled, k)
         THEN [tokens |-> Deduct(refilled, k), last_update |-> now, ret |-> "true"]
         ELSE [tokens |-> refilled, last_update |-> now, ret |-> "false"]

\* rate_limiter.py:87-96  release run as one step at time `now`
ReleaseAtomic(tok, last, now) ==
    [tokens |-> ReleaseAdd(AddTokens(tok, last, now)), last_update |-> now,
     ret |-> "none"]

\* the dictionary process_text has not returned yet
NoValue == [metadata |-> "", formatted_text |-> <<>>]

\* no process_text call in progress.  chunk is the for loop's position,
\* fails the number of attempts the collaborator fails on the present chunk
\* before it would succeed, invoked the replicate.stream calls made for it,
\* earlier whether an attempt failed on an earlier chunk, doomed whether some
\* chunk so far fails at least max_retries times, out the list `results`,
\* value the dictionary returned
NoProcess ==
    [pc |-> "idle", template_ok |-> TRUE, nchunks |-> 0, max_retries |-> 0,
     chunk |-> 0, retry_count |-> 0, fails |-> 0, invoked |-> 0, earlier |-> 0,
     results |-> 0, acquires |-> 0, releases |-> 0, requests |-> 0, sleeps |-> 0,
     slept |-> 0, outcome |-> "none", doomed |-> FALSE, chunk_state |-> "none",
     out |-> <<>>, value |-> NoValue]

\* no _chunk_text call in progress.  text and chunks are sequences of
\* characters, current_pos is the 0-based position of the while loop
NoChunking ==
    [pc |-> "idle", text |-> <<>>, max_chunk_size |-> 0, max_chars |-> 0,
     current_pos |-> 0, chunks |-> <<>>]

\* the keys of the metadata dictionary (replicate_processor.py:355-360)
Keys == {"summary", "tags", "key_points"}

\* a dictionary is the value it holds under each key, Missing under a key it
\* does not have
Missing == "<missing>"
EmptyDict == [k \in Keys |-> Missing]

\* a JSON object's member that is not there
AbsentMeta == [type |-> "absent", d |-> EmptyDict]
AbsentText == [type |-> "absent", s |-> <<>>]

\* full_response = ""  (replicate_processor.py:320)
NoBuffer ==
    [kind |-> "none", prose |-> <<>>, metadata |-> AbsentMeta,
     formatted_text |-> AbsentText]

NoResult == [metadata |-> EmptyDict, formatted_text |-> <<>>]

\* no attempt in progress.  chunk is the chunk's text, full_response the
\* completed response buffer, stage the branch that built the result
\* ("direct": lines 338-366, "fallback": lines 367-403), error the exception
\* on its way to line 404, last_error the exception line 405 recorded, sleeps
\* and slept the backoff sleeps made and the seconds of the latest
NoRepair ==
    [pc |-> "idle", chunk |-> <<>>, max_retries |-> 0, retry_count |-> 0,
     requests |-> 0, full_response |-> NoBuffer, stage |-> "none",
     error |-> "none", last_error |-> "none", sleeps |-> 0, slept |-> 0,
     result |-> NoResult]

\* no run of the program in progress.  api_token is whether
\* REPLICATE_API_TOKEN is set once load_dotenv has run, verify what the
\* account request of line 132 meets, files the text files the command finds,
\* network the requests made to the account endpoint, process_calls the
\* process_text calls made
NoCli ==
    [pc |-> "idle", command |-> "none", api_token |-> FALSE, verify |-> "ok",
     dry_run |-> FALSE, files |-> 0, file |-> 0, network |-> 0,
     process_calls |-> 0, outcome |-> "none"]

\* no stream being read.  pending is the number of events the stream has
\* still to deliver, full_response the buffer as the elapsed time at which
\* each fragment was appended, elapsed the time since start_time at the
\* attempt's last step
NoStream ==
    [pc |-> "idle", timeout |-> 0, max_retries |-> 0, retry_count |-> 0,
     start_time |-> 0, pending |-> 0, full_response |-> <<>>, elapsed |-> 0,
     error |-> "none"]

(* ---- Init: RateLimiter.__init__ (rate_limiter.py:27-39) ---- *)
Init ==
    /\ rate \in Rates
    /\ max_tokens \in 1..MaxBurst
    /\ tokens = max_tokens * Scale
    /\ last_update = 0
    /\ lock = NoThread
    /\ clock = 0
    /\ pc = [t \in Threads |-> "idle"]
    /\ call = [t \in Threads |-> NoCall]
    /\ snap = [t \in Threads |-> <<0, 0>>]
    /\ refills = [t \in Threads |-> 0]
    /\ grant = NoGrant
    /\ epochBase = max_tokens * Scale
    /\ epochGranted = 0
    /\ seqTokens = max_tokens * Scale
    /\ seqLast = 0
    /\ pt = NoProcess
    /\ others = 0
    /\ held = 0
    /\ winStart = None
    /\ admitted = 0
    /\ ck = NoChunking
    /\ rp = NoRepair
    /\ cli = NoCli
    /\ sa = NoStream

(* ---- time ---- *)
Tick ==
    /\ clock < MaxTime
    /\ clock' = clock + 1
    /\ UNCHANGED <<fnVars, ptVars, rate, max_tokens, tokens, last_update, lock, thVars, histVars>>

(* ---- a thread begins a call ---- *)
CallAcquire(t, timeouts) ==
    /\ pc[t] = "idle"
    /\ \E k \in 1..(max_tokens + 1), to \in timeouts :
         call' = [call EXCEPT ![t] = [NoCall EXCEPT !.op = "acquire", !.n = k,
                                                   !.timeout = to]]
    /\ pc' = [pc EXCEPT ![t] = "a69"]
    /\ refills' = [refills EXCEPT ![t] = 0]
    /\ UNCHANGED <<fnVars, ptVars, rlVars, snap, histVars>>

CallRelease(t) ==
    /\ pc[t] = "idle"
    /\ call' = [call EXCEPT ![t] = [NoCall EXCEPT !.op = "release"]]
    /\ pc' = [pc EXCEPT ![t] = "r94"]
    /\ refills' = [refills EXCEPT ![t] = 0]
    /\ UNCHANGED <<fnVars, ptVars, rlVars, snap, histVars>>

(* ---- acquire, rate_limiter.py:55-85 ---- *)
\* 69-72: the argument check, then start_time = time.time()
AcquireCheck(t) ==
    /\ pc[t] = "a69"
    /\ IF ExceedsMax(call[t].n)
       THEN /\ pc' = [pc EXCEPT ![t] = "raised"]
            /\ call' = [call EXCEPT ![t].ret = "raise"]
       ELSE /\ pc' = [pc EXCEPT ![t] = "a74"]
            /\ call' = [call EXCEPT ![t].start_time = clock]
    /\ UNCHANGED <<fnVars, ptVars, rlVars, snap, refills, histVars>>

\* 74 / 94: with self.lock
TakeLock(t) ==
    /\ pc[t] \in {"a74", "r94"}
    /\ LockAvailable
    /\ lock' = t
    /\ snap' = [snap EXCEPT ![t] = <<tokens, last_update>>]
    /\ call' = [call EXCEPT ![t].seen = grant]
    /\ pc' = [pc EXCEPT ![t] = "t48"]
    /\ UNCHANGED <<fnVars, ptVars, rate, max_tokens, tokens, last_update, clock, refills, histVars>>

\* 41-53: _add_tokens, the first statement under the lock
Refill(t) ==
    /\ pc[t] = "t48"
    /\ tokens' = AddTokens(tokens, last_update, clock)
    /\ last_update' = clock
    /\ refills' = [refills EXCEPT ![t] = @ + 1]
    /\ LET seq == IF call[t].op = "acquire"
                  THEN AcquireAtomic(seqTokens, seqLast, clock, call[t].n)
                  ELSE ReleaseAtomic(seqTokens, seqLast, clock)
       IN /\ seqTokens' = seq.tokens
          /\ seqLast' = seq.last_update
          /\ call' = [call EXCEPT ![t].now = clock, ![t].expect = seq.ret]
    /\ IF AddTokens(tokens, last_update, clock) > tokens
       THEN epochBase' = AddTokens(tokens, last_update, clock) /\ epochGranted' = 0
       ELSE UNCHANGED <<epochBase, epochGranted>>
    /\ pc' = [pc EXCEPT ![t] = IF call[t].op = "acquire" THEN "a77" ELSE "r96"]
    /\ UNCHANGED <<fnVars, ptVars, rate, max_tokens, lock, clock, snap, grant>>

\* 77-79: enough tokens: deduct, return True
AcquireGrant(t) ==
    /\ pc[t] = "a77"
    /\ HasEnough(tokens, call[t].n)
    /\ tokens' = Deduct(tokens, call[t].n)
    /\ call' = [call EXCEPT ![t].ret = "true"]
    /\ pc' = [pc EXCEPT ![t] = "unlock"]
    /\ epochGranted' = epochGranted + call[t].n
    /\ grant' = [n |-> call[t].n, now |-> call[t].now, rel |-> FALSE]
    /\ UNCHANGED <<fnVars, ptVars, rate, max_tokens, last_update, lock, clock, snap, refills, epochBase,
                   seqTokens, seqLast>>

\* 81-85: not enough tokens: return False, with or without a timeout
AcquireRefuse(t) ==
    /\ pc[t] = "a77"
    /\ ~HasEnough(tokens, call[t].n)
    /\ call' = [call EXCEPT ![t].ret = "false"]
    /\ pc' = [pc EXCEPT ![t] = AfterRefusal(call[t].timeout, clock - call[t].start_time)]
    /\ UNCHANGED <<fnVars, ptVars, rlVars, snap, refills, histVars>>

(* ---- release, rate_limiter.py:87-96 ---- *)
ReleaseToken(t) ==
    /\ pc[t] = "r96"
    /\ tokens' = ReleaseAdd(tokens)
    /\ pc' = [pc EXCEPT ![t] = "unlock"]
    /\ epochBase' = ReleaseAdd(tokens)
    /\ epochGranted' = 0
    /\ grant' = [grant EXCEPT !.rel = TRUE]
    /\ UNCHANGED <<fnVars, ptVars, rate, max_tokens, last_update, lock, clock, call, snap, refills,
                   seqTokens, seqLast>>

\* leaving `with self.lock`: the call returns to its caller
Unlock(t) ==
    /\ pc[t] = "unlock"
    /\ lock' = NoThread
    /\ pc' = [pc EXCEPT ![t] = "idle"]
    /\ call' = [call EXCEPT ![t] = NoCall]
    /\ snap' = [snap EXCEPT ![t] = <<0, 0>>]
    /\ refills' = [refills EXCEPT ![t] = 0]
    /\ UNCHANGED <<fnVars, ptVars, rate, max_tokens, tokens, last_update, clock, histVars>>

\* the ValueError reaches the caller, who may call again
Return(t) ==
    /\ pc[t] = "raised"
    /\ pc' = [pc EXCEPT ![t] = "idle"]
    /\ call' = [call EXCEPT ![t] = NoCall]
    /\ UNCHANGED <<fnVars, ptVars, rlVars, snap, refills, histVars>>

ThreadStep(t, timeouts) ==
    \/ CallAcquire(t, timeouts)
    \/ CallRelease(t)
    \/ AcquireCheck(t)
    \/ TakeLock(t)
    \/ Refill(t)
    \/ AcquireGrant(t)
    \/ AcquireRefuse(t)
    \/ ReleaseToken(t)
    \/ Unlock(t)
    \/ Return(t)

\* threads sharing the limiter (tests/test_rate_limiter.py:69-98); the timeout
\* argument, which touches no shared state, is varied in SpecSeq
Next ==
    \/ Tick
    \/ \E t \in Threads : ThreadStep(t, {None})

Spec == Init /\ [][Next]_vars

\* one caller, every kind of timeout argument (tests/test_rate_limiter.py:12-67)
NextSeq ==
    \/ Tick
    \/ \E t \in SeqThreads : ThreadStep(t, ArgTimeouts)

SpecSeq == Init /\ [][NextSeq]_vars

\* rate_limiter.py:55  `tokens: int`: arguments below 1, which line 69 lets
\* through
OtherArgs == {-1, 0}

\* a thread begins acquire(k) with k below 1 (followed while the count of
\* tokens granted since the latest refill has not gone below 0)
CallAcquireAny(t) ==
    /\ pc[t] = "idle"
    /\ epochGranted >= 0
    /\ \E k \in OtherArgs :
         call' = [call EXCEPT ![t] = [NoCall EXCEPT !.op = "acquire", !.n = k]]
    /\ pc' = [pc EXCEPT ![t] = "a69"]
    /\ refills' = [refills EXCEPT ![t] = 0]
    /\ UNCHANGED <<fnVars, ptVars, rlVars, snap, histVars>>

\* one caller, every integer argument from -1 to max_tokens + 1
NextArgs ==
    \/ Tick
    \/ \E t \in SeqThreads : CallAcquireAny(t)
    \/ \E t \in SeqThreads : ThreadStep(t, {None})

SpecArgs == Init /\ [][NextArgs]_vars


(***************************************************************************)
(* ReplicateProcessor (replicate_processor.py)                             *)
(***************************************************************************)

ProcessorMaxBurst == 10     \* replicate_processor.py:109  max_burst=10
BackoffCap == 5             \* replicate_processor.py:408  min(2 ** retry_count, 5)
MaxChunks == 3      \* bound: chunks _chunk_text returns for one call
MaxRetries == 2     \* bound: largest max_retries argument

\* replicate_processor.py:108-109  the limiter a processor constructs, with
\* refill rate r and no call in progress
ProcessorWith(r) ==
    /\ rate = r
    /\ max_tokens = ProcessorMaxBurst
    /\ tokens = ProcessorMaxBurst * Scale
    /\ last_update = 0
    /\ lock = NoThread
    /\ clock = 0
    /\ pc = [t \in Threads |-> "idle"]
    /\ call = [t \in Threads |-> NoCall]
    /\ snap = [t \in Threads |-> <<0, 0>>]
    /\ refills = [t \in Threads |-> 0]
    /\ grant = NoGrant
    /\ epochBase = ProcessorMaxBurst * Scale
    /\ epochGranted = 0
    /\ seqTokens = ProcessorMaxBurst * Scale
    /\ seqLast = 0
    /\ pt = NoProcess
    /\ others = 0
    /\ held = 0
    /\ winStart = None
    /\ admitted = 0

InitProcessor ==
    /\ \E r \in Rates : ProcessorWith(r)
    /\ ck = NoChunking
    /\ rp = NoRepair
    /\ cli = NoCli
    /\ sa = NoStream

\* the window's count after one more admission
Admit == IF winStart # None THEN admitted + 1 ELSE admitted

\* acquire placed inside the try block, so that a refusal runs the finally
AfterGateInsideTry(ret) == IF ret = "true" THEN "l292" ELSE "l424"

\* replicate_processor.py:287-290  where process_text goes after acquire
AfterGate(ret) == IF ret = "true" THEN "l292" ELSE "raised"

\* a retry counter that is not reset for the next chunk
RetryCountCarriedOver(rc) == rc

\* replicate_processor.py:300  retry_count = 0
RetryCountAtChunkStart(rc) == 0

\* a release on the success path only, without try/finally
ExitPathOnlyOnReturn(kind) == IF kind = "result" THEN "l424" ELSE "raised"

\* replicate_processor.py:421-424  every way out of the try block goes through
\* finally: self.rate_limiter.release()
ExitPath(kind) == "l424"

\* replicate_processor.py:408  time.sleep(min(2 ** retry_count, 5))
BackoffSeconds(rc) == Min(2 ^ rc, BackoffCap)

\* an outer handler that lets the exception through as it is
OuterExceptReraises(exc) == exc

\* replicate_processor.py:421-422  except Exception as e: raise
\* ReplicateAPIError(...): whatever was raised inside the try block, a
\* ReplicateAPIError of line 410 or 414 included, leaves as ReplicateAPIError
OuterExcept(exc) == "api_error"

\* a best-effort loop that goes on to the next chunk when one has failed
GiveUpSkipsChunk(c) == [pc |-> "l299", chunk |-> c + 1]

\* replicate_processor.py:410  the raise leaves the while and the for loop
GiveUp(c) == [pc |-> ExitPath("error"), chunk |-> c]

\* replicate_processor.py:362-365  the dictionary appended for chunk i; its
\* contents are named after the chunk they were recovered for
Recovered(i) == [metadata |-> ToString(i), formatted_text |-> <<ToString(i)>>]

\* replicate_processor.py:418  ' '.join(...)
RECURSIVE JoinSpace(_)
JoinSpace(texts) ==
    IF texts = <<>> THEN <<>>
    ELSE IF Len(texts) = 1 THEN Head(texts)
    ELSE Head(texts) \o <<" ">> \o JoinSpace(Tail(texts))

\* a merge that keeps the last chunk's metadata
MergeLastMetadata(results) ==
    [metadata |-> results[Len(results)].metadata,
     formatted_text |-> JoinSpace([i \in 1..Len(results) |-> results[i].formatted_text])]

\* replicate_processor.py:416-419  the dictionary returned
Merge(results) ==
    [metadata |-> results[1].metadata,
     formatted_text |-> JoinSpace([i \in 1..Len(results) |-> results[i].formatted_text])]

\* replicate_processor.py:264  a caller starts process_text
ProcessCall ==
    /\ pt.pc = "idle"
    /\ \E ok \in BOOLEAN, k \in 1..MaxChunks, r \in 0..MaxRetries :
         pt' = [NoProcess EXCEPT !.pc = "l287", !.template_ok = ok,
                                 !.nchunks = k, !.max_retries = r]
    /\ UNCHANGED <<fnVars, rlVars, thVars, histVars, others, held, winStart, admitted>>

\* 287-288: the rate gate
ProcessGate ==
    /\ pt.pc = "l287"
    /\ LET a == AcquireAtomic(tokens, last_update, clock, 1) IN
         /\ tokens' = a.tokens
         /\ last_update' = a.last_update
         /\ pt' = [pt EXCEPT !.pc = AfterGate(a.ret),
                             !.acquires = @ + 1,
                             !.outcome = IF a.ret = "true" THEN @ ELSE "rate_limit"]
         /\ held' = IF a.ret = "true" THEN held + 1 ELSE held
         /\ admitted' = IF a.ret = "true" THEN Admit ELSE admitted
    /\ UNCHANGED <<fnVars, rate, max_tokens, lock, clock, thVars, histVars, others, winStart>>

\* 292-297: the template lookup, then _chunk_text
ProcessTemplate ==
    /\ pt.pc = "l292"
    /\ IF pt.template_ok
       THEN pt' = [pt EXCEPT !.pc = "l299", !.chunk = 1]
       ELSE pt' = [pt EXCEPT !.pc = ExitPath("error"),
                             !.outcome = OuterExcept("ValueError")]
    /\ UNCHANGED <<fnVars, rlVars, thVars, histVars, others, held, winStart, admitted>>

\* 299-303: the next chunk, its retry counter, and the loop test
ProcessNextChunk ==
    /\ pt.pc = "l299"
    /\ IF pt.chunk > pt.nchunks
       THEN pt' = [pt EXCEPT !.pc = "l413"]
       ELSE \E f \in 0..MaxRetries :
              LET rc == RetryCountAtChunkStart(pt.retry_count) IN
              pt' = [pt EXCEPT
                       !.retry_count = rc,
                       !.fails = f,
                       !.invoked = 0,
                       !.earlier = Min(1, @ + pt.retry_count),
                       !.doomed = @ \/ f >= pt.max_retries,
                       !.chunk_state = "PENDING",
                       !.pc = IF rc < pt.max_retries THEN "l306" ELSE "l299",
                       !.chunk = IF rc < pt.max_retries THEN @ ELSE @ + 1]
    /\ UNCHANGED <<fnVars, rlVars, thVars, histVars, others, held, winStart, admitted>>

\* 306-317: replicate.stream(...)
ProcessRequest ==
    /\ pt.pc = "l306"
    /\ pt' = [pt EXCEPT !.pc = "l323", !.invoked = @ + 1, !.requests = @ + 1,
                        !.chunk_state = "STREAMING"]
    /\ UNCHANGED <<fnVars, rlVars, thVars, histVars, others, held, winStart, admitted>>

\* 323-403: the attempt ends: a result is appended and the loop is left, or
\* an exception reaches line 404
ProcessAttemptEnds ==
    /\ pt.pc = "l323"
    /\ IF pt.invoked > pt.fails
       THEN pt' = [pt EXCEPT !.pc = "l299", !.results = @ + 1, !.chunk = @ + 1,
                             !.out = Append(@, Recovered(pt.chunk)),
                             !.chunk_state = "SUCCEEDED"]
       ELSE pt' = [pt EXCEPT !.pc = "l405"]
    /\ UNCHANGED <<fnVars, rlVars, thVars, histVars, others, held, winStart, admitted>>

\* 404-410: count the failure; sleep and try again, or give up
ProcessAttemptFailed ==
    /\ pt.pc = "l405"
    /\ LET rc == pt.retry_count + 1 IN
       IF rc < pt.max_retries
       THEN pt' = [pt EXCEPT !.retry_count = rc, !.pc = "l306",
                             !.sleeps = @ + 1, !.slept = BackoffSeconds(rc),
                             !.chunk_state = "RETRYING"]
       ELSE pt' = [pt EXCEPT !.retry_count = rc, !.pc = GiveUp(pt.chunk).pc,
                             !.chunk = GiveUp(pt.chunk).chunk,
                             !.outcome = OuterExcept("api_error"),
                             !.chunk_state = "FAILED"]
    /\ UNCHANGED <<fnVars, rlVars, thVars, histVars, others, held, winStart, admitted>>

\* 412-419: combine the chunks' results
ProcessCombine ==
    /\ pt.pc = "l413"
    /\ IF pt.results = 0
       THEN pt' = [pt EXCEPT !.pc = ExitPath("error"),
                             !.outcome = OuterExcept("api_error")]
       ELSE pt' = [pt EXCEPT !.pc = ExitPath("result"), !.outcome = "result",
                             !.value = Merge(pt.out)]
    /\ UNCHANGED <<fnVars, rlVars, thVars, histVars, others, held, winStart, admitted>>

\* 423-424: finally: self.rate_limiter.release()
ProcessFinally ==
    /\ pt.pc = "l424"
    /\ LET r == ReleaseAtomic(tokens, last_update, clock) IN
         /\ tokens' = r.tokens
         /\ last_update' = r.last_update
    /\ pt' = [pt EXCEPT !.releases = @ + 1,
                        !.pc = IF pt.outcome = "result" THEN "returned" ELSE "raised"]
    /\ held' = held - 1
    /\ UNCHANGED <<fnVars, rate, max_tokens, lock, clock, thVars, histVars, others, winStart,
                   admitted>>

\* the caller has the result or the exception
ProcessDone ==
    /\ pt.pc \in {"returned", "raised"}
    /\ pt' = NoProcess
    /\ UNCHANGED <<fnVars, rlVars, thVars, histVars, others, held, winStart, admitted>>

\* 287: another thread's process_text call passes the gate, or is refused
OtherEnters ==
    /\ admitted <= ProcessorMaxBurst
    /\ LET a == AcquireAtomic(tokens, last_update, clock, 1) IN
         /\ a.ret = "true" => others < ProcessorMaxBurst
         /\ tokens' = a.tokens
         /\ last_update' = a.last_update
         /\ others' = IF a.ret = "true" THEN others + 1 ELSE others
         /\ admitted' = IF a.ret = "true" THEN Admit ELSE admitted
    /\ UNCHANGED <<fnVars, rate, max_tokens, lock, clock, thVars, histVars, pt, held, winStart>>

\* 424: another thread's process_text call leaves through finally
OtherLeaves ==
    /\ others > 0
    /\ LET r == ReleaseAtomic(tokens, last_update, clock) IN
         /\ tokens' = r.tokens
         /\ last_update' = r.last_update
    /\ others' = others - 1
    /\ UNCHANGED <<fnVars, rate, max_tokens, lock, clock, thVars, histVars, pt, held, winStart,
                   admitted>>

\* an observer starts counting admissions
OpenWindow ==
    /\ winStart = None
    /\ winStart' = clock
    /\ admitted' = 0
    /\ UNCHANGED <<fnVars, rlVars, thVars, histVars, pt, others, held>>

\* one process_text call step by step, among other callers of the processor
NextProcess ==
    \/ Tick
    \/ ProcessCall
    \/ ProcessGate
    \/ ProcessTemplate
    \/ ProcessNextChunk
    \/ ProcessRequest
    \/ ProcessAttemptEnds
    \/ ProcessAttemptFailed
    \/ ProcessCombine
    \/ ProcessFinally
    \/ ProcessDone
    \/ OtherEnters
    \/ OtherLeaves

SpecProcess == InitProcessor /\ [][NextProcess]_vars

\* the steps of the thread that runs process_text
ProcessStep ==
    \/ ProcessGate
    \/ ProcessTemplate
    \/ ProcessNextChunk
    \/ ProcessRequest
    \/ ProcessAttemptEnds
    \/ ProcessAttemptFailed
    \/ ProcessCombine
    \/ ProcessFinally

\* one process_text call step by step, among other callers of the processor,
\* with no time passing
NextCall ==
    \/ ProcessCall
    \/ ProcessStep
    \/ ProcessDone
    \/ OtherEnters
    \/ OtherLeaves

SpecCall == InitProcessor /\ [][NextCall]_vars

\* the calling thread keeps running: acquire does not wait, every stream is
\* finite and every backoff sleep ends (replicate_processor.py:323, 408)
SpecCallFair == SpecCall /\ WF_vars(ProcessStep)

\* the calls of a processor, each seen at its rate gate and at its exit
NextRate ==
    \/ Tick
    \/ OtherEnters
    \/ OtherLeaves
    \/ OpenWindow

SpecRate == InitProcessor /\ [][NextRate]_vars

(***************************************************************************)
(* process_text and the limiter's lock: the calling thread goes through    *)
(* acquire and release statement by statement, beside another thread that  *)
(* calls acquire(1) and release() on the same limiter                      *)
(***************************************************************************)

Caller == 1         \* the thread that runs process_text
Other == 2          \* a thread of another process_text call

\* self.timeout as process_text hands it to acquire (line 287), in ticks
GateTimeouts == {1}

\* the statements of acquire and release between the call and the return
LimiterStep(t) ==
    \/ AcquireCheck(t)
    \/ TakeLock(t)
    \/ Refill(t)
    \/ AcquireGrant(t)
    \/ AcquireRefuse(t)
    \/ ReleaseToken(t)

\* 287: process_text calls self.rate_limiter.acquire(timeout=self.timeout)
GateCall ==
    /\ pt.pc = "l287"
    /\ pc[Caller] = "idle"
    /\ \E to \in GateTimeouts :
         call' = [call EXCEPT ![Caller] = [NoCall EXCEPT !.op = "acquire", !.n = 1,
                                                        !.timeout = to]]
    /\ pc' = [pc EXCEPT ![Caller] = "a69"]
    /\ refills' = [refills EXCEPT ![Caller] = 0]
    /\ pt' = [pt EXCEPT !.pc = "l287a"]
    /\ UNCHANGED <<fnVars, rlVars, snap, histVars, others, held, winStart, admitted>>

\* 287-290: acquire leaves `with self.lock` and returns to process_text
GateReturn ==
    /\ pt.pc = "l287a"
    /\ pc[Caller] = "unlock"
    /\ lock' = NoThread
    /\ pc' = [pc EXCEPT ![Caller] = "idle"]
    /\ call' = [call EXCEPT ![Caller] = NoCall]
    /\ snap' = [snap EXCEPT ![Caller] = <<0, 0>>]
    /\ refills' = [refills EXCEPT ![Caller] = 0]
    /\ LET ret == call[Caller].ret IN
         /\ pt' = [pt EXCEPT !.pc = AfterGate(ret),
                             !.acquires = @ + 1,
                             !.outcome = IF ret = "true" THEN @ ELSE "rate_limit"]
         /\ held' = IF ret = "true" THEN held + 1 ELSE held
    /\ UNCHANGED <<fnVars, rate, max_tokens, tokens, last_update, clock, histVars,
                   others, winStart, admitted>>

\* 424: finally calls self.rate_limiter.release()
FinallyCall ==
    /\ pt.pc = "l424"
    /\ pc[Caller] = "idle"
    /\ call' = [call EXCEPT ![Caller] = [NoCall EXCEPT !.op = "release"]]
    /\ pc' = [pc EXCEPT ![Caller] = "r94"]
    /\ refills' = [refills EXCEPT ![Caller] = 0]
    /\ pt' = [pt EXCEPT !.pc = "l424r"]
    /\ UNCHANGED <<fnVars, rlVars, snap, histVars, others, held, winStart, admitted>>

\* 424: release leaves `with self.lock`; the result or the exception goes on
\* to the caller
FinallyReturn ==
    /\ pt.pc = "l424r"
    /\ pc[Caller] = "unlock"
    /\ lock' = NoThread
    /\ pc' = [pc EXCEPT ![Caller] = "idle"]
    /\ call' = [call EXCEPT ![Caller] = NoCall]
    /\ snap' = [snap EXCEPT ![Caller] = <<0, 0>>]
    /\ refills' = [refills EXCEPT ![Caller] = 0]
    /\ pt' = [pt EXCEPT !.releases = @ + 1,
                        !.pc = IF pt.outcome = "result" THEN "returned" ELSE "raised"]
    /\ held' = held - 1
    /\ UNCHANGED <<fnVars, rate, max_tokens, tokens, last_update, clock, histVars,
                   others, winStart, admitted>>

\* 287, 424: the other thread calls acquire(timeout=self.timeout) or release()
OtherCalls ==
    /\ pc[Other] = "idle"
    /\ \/ \E to \in GateTimeouts :
            /\ call' = [call EXCEPT ![Other] = [NoCall EXCEPT !.op = "acquire",
                                                !.n = 1, !.timeout = to]]
            /\ pc' = [pc EXCEPT ![Other] = "a69"]
       \/ /\ call' = [call EXCEPT ![Other] = [NoCall EXCEPT !.op = "release"]]
          /\ pc' = [pc EXCEPT ![Other] = "r94"]
    /\ refills' = [refills EXCEPT ![Other] = 0]
    /\ UNCHANGED <<fnVars, ptVars, rlVars, snap, histVars>>

\* the steps of the thread that runs process_text
CallerStep ==
    \/ GateCall
    \/ LimiterStep(Caller)
    \/ GateReturn
    \/ ProcessTemplate
    \/ ProcessNextChunk
    \/ ProcessRequest
    \/ ProcessAttemptEnds
    \/ ProcessAttemptFailed
    \/ ProcessCombine
    \/ FinallyCall
    \/ FinallyReturn

\* the steps of the other thread inside acquire and release
OtherStep ==
    \/ LimiterStep(Other)
    \/ Unlock(Other)

\* 264: a caller starts process_text on a text of one chunk
LockCall ==
    /\ pt.pc = "idle"
    /\ pc[Caller] = "idle"
    /\ \E ok \in BOOLEAN, r \in 1..MaxRetries :
         pt' = [NoProcess EXCEPT !.pc = "l287", !.template_ok = ok,
                                 !.nchunks = 1, !.max_retries = r]
    /\ UNCHANGED <<fnVars, rlVars, thVars, histVars, others, held, winStart, admitted>>

InitLock ==
    /\ ProcessorWith(Scale)
    /\ ck = NoChunking
    /\ rp = NoRepair
    /\ cli = NoCli
    /\ sa = NoStream

NextLock ==
    \/ LockCall
    \/ CallerStep
    \/ ProcessDone
    \/ OtherCalls
    \/ OtherStep

SpecLock == InitLock /\ [][NextLock]_vars

\* both threads keep running, and a thread waiting at `with self.lock` gets
\* the lock when it is released again and again
SpecLockFair ==
    /\ SpecLock
    /\ WF_vars(CallerStep)
    /\ WF_vars(OtherStep)
    /\ SF_vars(TakeLock(Caller))
    /\ SF_vars(TakeLock(Other))

(***************************************************************************)
(* ReplicateProcessor._chunk_text (replicate_processor.py:214-262)         *)
(***************************************************************************)

CharsPerToken == 4      \* replicate_processor.py:227  chars_per_token = 4
NotFound == -1          \* replicate_processor.py:246  what str.rfind returns
MaxTextLen == 6     \* bound: characters of the text given to _chunk_text
MaxChunkSize == 1   \* bound: largest max_chunk_size argument

\* a letter, and the characters _chunk_text looks for
Alphabet == {"a", " ", ".", "\n"}
\* the texts of at most n characters
Texts(n) == UNION {[1..k -> Alphabet] : k \in 0..n}
ChunkSizes == 1..MaxChunkSize

\* Python's text[a:b] for 0 <= a <= b
Slice(text, a, b) == SubSeq(text, a + 1, Min(b, Len(text)))

\* Python's text.rfind(sub, start, end): the highest index i with
\* start <= i, i + len(sub) <= end and text[i:i+len(sub)] = sub, or -1
RFind(text, sub, start, end) ==
    LET stop == Min(end, Len(text))
        hits == {i \in start..(stop - Len(sub)) :
                    SubSeq(text, i + 1, i + Len(sub)) = sub}
    IN IF hits = {} THEN NotFound
       ELSE CHOOSE i \in hits : \A j \in hits : j <= i

\* a cut placed after the character that follows the break point
BreakAfterSeparator(idx) == idx + 2

\* replicate_processor.py:247, 252, 257  end_pos = <index found> + 1
BreakAfter(idx) == idx + 1

\* a cut at whichever break point lies nearest the end of the window
BreakPointNearest(text, current_pos, end_pos) ==
    LET found == {RFind(text, <<".", " ">>, current_pos, end_pos),
                  RFind(text, <<"\n">>, current_pos, end_pos),
                  RFind(text, <<" ">>, current_pos, end_pos)} \ {NotFound}
    IN IF found = {} THEN end_pos
       ELSE BreakAfter(CHOOSE i \in found : \A j \in found : j <= i)

\* replicate_processor.py:245-257  end_pos moved back to a sentence end, else
\* a newline, else a space, else left where it is
BreakPoint(text, current_pos, end_pos) ==
    LET sentence_end == RFind(text, <<".", " ">>, current_pos, end_pos)
        para_end == RFind(text, <<"\n">>, current_pos, end_pos)
        word_end == RFind(text, <<" ">>, current_pos, end_pos)
    IN IF sentence_end # NotFound THEN BreakAfter(sentence_end)
       ELSE IF para_end # NotFound THEN BreakAfter(para_end)
       ELSE IF word_end # NotFound THEN BreakAfter(word_end)
       ELSE end_pos

\* a loop that resumes one character after the cut
NextPosSkips(end_pos) == end_pos + 1

\* replicate_processor.py:260  current_pos = end_pos
NextPos(end_pos) == end_pos

\* a call _chunk_text(text, max_chunk_size) about to run
InitChunk ==
    /\ ProcessorWith(Scale)
    /\ rp = NoRepair
    /\ cli = NoCli
    /\ sa = NoStream
    /\ \E t \in Texts(MaxTextLen), m \in ChunkSizes :
         ck = [NoChunking EXCEPT !.pc = "c228", !.text = t, !.max_chunk_size = m]

\* 227-235: the text that fits is returned whole; else the loop is entered
ChunkBegin ==
    /\ ck.pc = "c228"
    /\ LET max_chars == ck.max_chunk_size * CharsPerToken IN
       IF Len(ck.text) <= max_chars
       THEN ck' = [ck EXCEPT !.max_chars = max_chars, !.chunks = <<ck.text>>,
                             !.pc = "returned"]
       ELSE ck' = [ck EXCEPT !.max_chars = max_chars, !.chunks = <<>>,
                             !.current_pos = 0, !.pc = "c237"]
    /\ UNCHANGED <<rlVars, thVars, histVars, ptVars, rp, cli, sa>>

\* 237-262: one iteration of the while loop, or its end, and the return
ChunkStep ==
    /\ ck.pc = "c237"
    /\ IF ck.current_pos < Len(ck.text)
       THEN LET end_pos == ck.current_pos + ck.max_chars IN
            IF end_pos >= Len(ck.text)
            THEN ck' = [ck EXCEPT
                          !.chunks = Append(@, Slice(ck.text, ck.current_pos,
                                                     Len(ck.text))),
                          !.pc = "returned"]
            ELSE LET cut == BreakPoint(ck.text, ck.current_pos, end_pos) IN
                 ck' = [ck EXCEPT
                          !.chunks = Append(@, Slice(ck.text, ck.current_pos, cut)),
                          !.current_pos = NextPos(cut)]
       ELSE ck' = [ck EXCEPT !.pc = "returned"]
    /\ UNCHANGED <<rlVars, thVars, histVars, ptVars, rp, cli, sa>>

NextChunk ==
    \/ ChunkBegin
    \/ ChunkStep

SpecChunk == InitChunk /\ [][NextChunk]_vars

\* every max_chunk_size the signature admits down to 0 (line 214 checks nothing)
AnyChunkSizes == 0..MaxChunkSize

\* a call _chunk_text(text, max_chunk_size), max_chunk_size = 0 included
InitChunkAny ==
    /\ ProcessorWith(Scale)
    /\ rp = NoRepair
    /\ cli = NoCli
    /\ sa = NoStream
    /\ \E t \in Texts(MaxTextLen), m \in AnyChunkSizes :
         ck = [NoChunking EXCEPT !.pc = "c228", !.text = t, !.max_chunk_size = m]

\* 237-260: one iteration, followed no further once the list holds more chunks
\* than the text has characters (a loop that advances never gets there)
ChunkStepCapped ==
    /\ Len(ck.chunks) <= Len(ck.text)
    /\ ChunkStep

NextChunkAny ==
    \/ ChunkBegin
    \/ ChunkStepCapped

SpecChunkAny == InitChunkAny /\ [][NextChunkAny]_vars

\* the thread running _chunk_text keeps running
SpecChunkFair == SpecChunkAny /\ WF_vars(NextChunkAny)

(***************************************************************************)
(* process_text: from the completed response buffer to the chunk's result  *)
(* (replicate_processor.py:328-410)                                        *)
(*                                                                         *)
(* Text is a sequence of tokens, one token for each thing the code treats  *)
(* differently.  A response buffer is a JSON object (kind "object", after  *)
(* the text `prose`, and given by its two members), a JSON list or number, *)
(* or text that holds no JSON object (kind "prose": prose, fragments of    *)
(* JSON, nothing at all).                                                  *)
(***************************************************************************)

MaxResponseLen == 3     \* bound: tokens of a text in a response

\* a capital letter, a sentence end, a blank, a character that line 344
\* removes, a literal that line 332 rewrites, a label that line 345 removes,
\* and the two ends of a preamble that line 346 removes
Tokens == {"B", ".", " ", "[", "True", "summary:", "Here is", ":"}
\* the texts of at most n tokens
ResponseTexts(n) == UNION {[1..k -> Tokens] : k \in 0..n}

Whitespace == {" "}             \* \s
SentenceEnds == {"."}           \* [.!?]
Upper == {"B", "True", "Here is"}   \* tokens that begin with [A-Z]
RemovedChars == {"["}           \* [{}\[\]"`]
Labels == {"summary:"}          \* metadata:|formatted_text:|summary:|tags:|key_points:
PrefixWords == {"Here is"}      \* Here is|The following|This is|Your

\* the members a response's metadata object may have, with their values
RecoveredValue == [k \in Keys |-> IF k = "summary" THEN "S"
                                  ELSE IF k = "tags" THEN "[t]" ELSE "[k]"]

\* replicate_processor.py:355-360  '' for summary, [] for tags and key_points
DefaultValue == [k \in Keys |-> IF k = "summary" THEN "" ELSE "[]"]

Dicts == {[k \in Keys |-> IF k \in present THEN RecoveredValue[k] ELSE Missing] :
             present \in SUBSET Keys}

\* a "metadata" member: an object, no member, or a value of another type
MetaValues ==
    {[type |-> "dict", d |-> d] : d \in Dicts}
        \cup {AbsentMeta, [type |-> "other", d |-> EmptyDict]}

\* a "formatted_text" member: a string of at most n tokens, no member, or a
\* value of another type
TextValues(n) ==
    {[type |-> "str", s |-> t] : t \in ResponseTexts(n)}
        \cup {AbsentText, [type |-> "other", s |-> <<>>]}

\* text in front of a JSON object, as in 'Here is the result: {...}'
Preamble == <<"Here is", ":">>

\* a metadata object with every key, and a plain formatted_text
CompleteMeta == [type |-> "dict", d |-> RecoveredValue]
PlainText == [type |-> "str", s |-> <<"B">>]

\* the two members of a response object: every metadata beside a plain, an
\* empty and a missing formatted_text, and every formatted_text beside a
\* complete metadata
Members(n) ==
    (MetaValues \X {PlainText, [type |-> "str", s |-> <<>>], AbsentText})
        \cup ({CompleteMeta} \X TextValues(n))

\* the completed buffers of an attempt, with texts of at most n tokens.  An
\* object after a preamble has a non-empty formatted_text string, so that
\* the regular expression of line 371 finds it
Buffers(n) ==
    {[kind |-> "object", prose |-> <<>>, metadata |-> mt[1],
      formatted_text |-> mt[2]] : mt \in Members(n)}
    \cup {[kind |-> "object", prose |-> Preamble, metadata |-> mt[1],
           formatted_text |-> mt[2]] :
              mt \in {x \in Members(n) : x[2].type = "str" /\ x[2].s # <<>>}}
    \cup {[kind |-> k, prose |-> <<>>, metadata |-> AbsentMeta,
           formatted_text |-> AbsentText] : k \in {"list", "number"}}
    \cup {[kind |-> "prose", prose |-> t, metadata |-> AbsentMeta,
           formatted_text |-> AbsentText] : t \in ResponseTexts(n)}

\* the chunks an attempt is made for: _chunk_text("") returns [""]
Chunks == {<<>>, <<"B">>}

\* replicate_processor.py:332  .replace('True', 'true')
NormalizeText(s) == [i \in 1..Len(s) |-> IF s[i] = "True" THEN "true" ELSE s[i]]

\* replicate_processor.py:329-334  cleaned_response
Normalize(b) ==
    [b EXCEPT !.prose = NormalizeText(@),
              !.formatted_text = [@ EXCEPT !.s = NormalizeText(@)]]

RECURSIVE LStrip(_)
LStrip(s) == IF s # <<>> /\ Head(s) \in Whitespace THEN LStrip(Tail(s)) ELSE s

RECURSIVE RStrip(_)
RStrip(s) ==
    IF s # <<>> /\ s[Len(s)] \in Whitespace
    THEN RStrip(SubSeq(s, 1, Len(s) - 1)) ELSE s

\* replicate_processor.py:347  str.strip()
Strip(s) == RStrip(LStrip(s))

\* the parsed value json.loads raised JSONDecodeError for
NotParsed ==
    [ok |-> FALSE, type |-> "none", metadata |-> AbsentMeta,
     formatted_text |-> AbsentText]

\* replicate_processor.py:337  json.loads(cleaned_response): a dictionary for
\* an object with nothing but blanks around it, a value of another type for a
\* list, a number and the literal true, and JSONDecodeError otherwise
JsonLoads(b) ==
    IF b.kind = "object" /\ Strip(b.prose) = <<>>
    THEN [ok |-> TRUE, type |-> "dict", metadata |-> b.metadata,
          formatted_text |-> b.formatted_text]
    ELSE IF b.kind \in {"list", "number"}
              \/ (b.kind = "prose" /\ Strip(b.prose) = <<"true">>)
    THEN [NotParsed EXCEPT !.ok = TRUE, !.type = "other"]
    ELSE NotParsed

\* replicate_processor.py:340  response_data.get('metadata', {})
GetMetadata(parsed) ==
    IF parsed.metadata.type = "absent"
    THEN [type |-> "dict", d |-> EmptyDict] ELSE parsed.metadata

\* replicate_processor.py:341  response_data.get('formatted_text', '')
GetText(parsed) ==
    IF parsed.formatted_text.type = "absent"
    THEN [type |-> "str", s |-> <<>>] ELSE parsed.formatted_text

IsKept(tok) == tok \notin RemovedChars
IsNoLabel(tok) == tok \notin Labels

\* replicate_processor.py:344, 381
StripChars(s) == SelectSeq(s, IsKept)

\* replicate_processor.py:345, 382
StripLabels(s) == SelectSeq(s, IsNoLabel)

\* replicate_processor.py:346, 383  ^.*?(Here is|...).*?:  the text up to the
\* first colon that follows the first of the words, when there is one
StripPrefix(s) ==
    LET words == {i \in 1..Len(s) : s[i] \in PrefixWords} IN
    IF words = {} THEN s
    ELSE LET i == CHOOSE w \in words : \A v \in words : w <= v
             colons == {j \in (i + 1)..Len(s) : s[j] = ":"}
         IN IF colons = {} THEN s
            ELSE LET j == CHOOSE c \in colons : \A e \in colons : c <= e
                 IN SubSeq(s, j + 1, Len(s))

\* the blanks s begins with
RECURSIVE RunLen(_)
RunLen(s) == IF s # <<>> /\ Head(s) \in Whitespace THEN 1 + RunLen(Tail(s)) ELSE 0

\* replicate_processor.py:350, 387  (?<=[.!?])\s+(?=[A-Z]) becomes '\n\n'
RECURSIVE ParagraphBreaks(_)
ParagraphBreaks(s) ==
    IF s = <<>> THEN <<>>
    ELSE LET rest == Tail(s)
             n == RunLen(rest)
         IN IF /\ Head(s) \in SentenceEnds
               /\ n > 0
               /\ n < Len(rest)
               /\ rest[n + 1] \in Upper
            THEN <<Head(s), "\n\n">> \o ParagraphBreaks(SubSeq(rest, n + 1, Len(rest)))
            ELSE <<Head(s)>> \o ParagraphBreaks(rest)

\* replicate_processor.py:344-350, 381-387
Cleanup(s) == ParagraphBreaks(Strip(StripPrefix(StripLabels(StripChars(s)))))

\* a validation that adds no default
KeepsMetadata(m) == m.d

\* replicate_processor.py:353-360, 390-397
ValidateMetadata(m) ==
    LET d == IF m.type = "dict" THEN m.d ELSE EmptyDict IN
    [k \in Keys |-> IF d[k] = Missing THEN DefaultValue[k] ELSE d[k]]

\* replicate_processor.py:364, 401  formatted_text or chunk
OrChunk(formatted_text, chunk) ==
    IF formatted_text # <<>> THEN formatted_text ELSE chunk

\* what replicate.stream and the stream loop raise (lines 306-326)
TransportErrors == {"ReplicateError", "TimeoutError"}
\* what lines 337-403 raise on a buffer json.loads accepts
RepairErrors == {"AttributeError", "TypeError"}

\* an exception on the way to line 404
Raises(exc) ==
    [error |-> exc, stage |-> "none", metadata |-> EmptyDict, formatted_text |-> <<>>]

\* replicate_processor.py:340-366  the result built from the parsed value;
\* .get on a value that is no dictionary raises AttributeError, re.sub on a
\* formatted_text that is no string raises TypeError
RepairDirect(parsed, chunk) ==
    IF parsed.type # "dict" THEN Raises("AttributeError")
    ELSE IF GetText(parsed).type # "str" THEN Raises("TypeError")
    ELSE [error |-> "none", stage |-> "direct",
          metadata |-> ValidateMetadata(GetMetadata(parsed)),
          formatted_text |-> OrChunk(Cleanup(GetText(parsed).s), chunk)]

\* replicate_processor.py:370  metadata"?:\s*({[^}]+})  finds an object that
\* is not empty
MetadataMatch(b) ==
    b.kind = "object" /\ b.metadata.type = "dict" /\ b.metadata.d # EmptyDict

\* replicate_processor.py:371  formatted_text"?:\s*"([^"]+)"  finds a string
\* that is not empty
TextMatch(b) ==
    b.kind = "object" /\ b.formatted_text.type = "str" /\ b.formatted_text.s # <<>>

\* replicate_processor.py:367-403  the result built from full_response when
\* json.loads raised JSONDecodeError
RepairFallback(b, chunk) ==
    LET metadata == IF MetadataMatch(b) THEN b.metadata
                    ELSE [type |-> "dict", d |-> EmptyDict]
        formatted_text == IF TextMatch(b) THEN b.formatted_text.s ELSE b.prose
    IN [error |-> "none", stage |-> "fallback",
        metadata |-> ValidateMetadata(metadata),
        formatted_text |-> OrChunk(Cleanup(formatted_text), chunk)]

\* replicate_processor.py:328-403
Repair(b, chunk) ==
    LET parsed == JsonLoads(Normalize(b)) IN
    IF parsed.ok THEN RepairDirect(parsed, chunk) ELSE RepairFallback(b, chunk)

\* process_text at the first attempt on a chunk, max_retries >= 1
InitRepair ==
    /\ ProcessorWith(Scale)
    /\ ck = NoChunking
    /\ cli = NoCli
    /\ sa = NoStream
    /\ \E c \in Chunks, r \in 1..MaxRetries :
         rp = [NoRepair EXCEPT !.pc = "l306", !.chunk = c, !.max_retries = r]

\* 306-326: the stream is read to its end
RepairStream ==
    /\ rp.pc = "l306"
    /\ \E b \in Buffers(MaxResponseLen) :
         rp' = [rp EXCEPT !.pc = "l329", !.full_response = b, !.requests = @ + 1]
    /\ UNCHANGED <<rlVars, thVars, histVars, ptVars, ck, cli, sa>>

\* 329-403: the result is appended and the loop is left, or an exception
\* reaches line 404
RepairAttempt ==
    /\ rp.pc = "l329"
    /\ LET r == Repair(rp.full_response, rp.chunk) IN
       IF r.error = "none"
       THEN rp' = [rp EXCEPT !.pc = "appended", !.stage = r.stage,
                             !.result = [metadata |-> r.metadata,
                                         formatted_text |-> r.formatted_text]]
       ELSE rp' = [rp EXCEPT !.pc = "l405", !.error = r.error]
    /\ UNCHANGED <<rlVars, thVars, histVars, ptVars, ck, cli, sa>>

\* a handler for the collaborator's failures only
CaughtTransportOnly(exc) == exc \in TransportErrors

\* replicate_processor.py:404  except Exception: every exception of the
\* attempt, whatever raised it
Caught(exc) == TRUE

\* 404-410: the exception costs a retry; the sleep and the next attempt, or
\* the failure.  An exception the handler did not catch would leave the loops
RepairFailed ==
    /\ rp.pc = "l405"
    /\ LET rc == rp.retry_count + 1 IN
       IF ~Caught(rp.error)
       THEN rp' = [rp EXCEPT !.pc = "raised"]
       ELSE IF rc < rp.max_retries
       THEN rp' = [rp EXCEPT !.retry_count = rc, !.pc = "l306",
                             !.full_response = NoBuffer, !.error = "none",
                             !.last_error = rp.error, !.sleeps = @ + 1,
                             !.slept = BackoffSeconds(rc)]
       ELSE rp' = [rp EXCEPT !.retry_count = rc, !.pc = "raised",
                             !.last_error = rp.error]
    /\ UNCHANGED <<rlVars, thVars, histVars, ptVars, ck, cli, sa>>

NextRepair ==
    \/ RepairStream
    \/ RepairAttempt
    \/ RepairFailed

SpecRepair == InitRepair /\ [][NextRepair]_vars

\* 306-326: the request or the stream raises: the collaborator's failure, or
\* the TimeoutError of line 325
RepairTransportFails ==
    /\ rp.pc = "l306"
    /\ \E e \in TransportErrors :
         rp' = [rp EXCEPT !.pc = "l405", !.error = e, !.requests = @ + 1]
    /\ UNCHANGED <<rlVars, thVars, histVars, ptVars, ck, cli, sa>>

\* the attempts on one chunk, each ending in a result, in an exception of the
\* repair or in a failure of the collaborator
NextAttempt ==
    \/ NextRepair
    \/ RepairTransportFails

SpecAttempt == InitRepair /\ [][NextAttempt]_vars

(***************************************************************************)
(* process_text: the stream read against the clock                         *)
(* (replicate_processor.py:303-326, 404-410)                               *)
(***************************************************************************)

MaxEvents == 2      \* bound: events a stream delivers

\* self.timeout (replicate_processor.py:106), in ticks
Timeouts == {0, 1}

\* process_text about to make the first request for a chunk
InitStream ==
    /\ ProcessorWith(Scale)
    /\ ck = NoChunking
    /\ rp = NoRepair
    /\ cli = NoCli
    /\ \E to \in Timeouts, r \in 1..MaxRetries :
         sa = [NoStream EXCEPT !.pc = "l306", !.timeout = to, !.max_retries = r]

\* 306-321: the request is made, the buffer emptied and the clock read
StreamRequest ==
    /\ sa.pc = "l306"
    /\ \E n \in 0..MaxEvents :
         sa' = [sa EXCEPT !.pc = "l323", !.pending = n, !.full_response = <<>>,
                          !.start_time = clock, !.elapsed = 0, !.error = "none"]
    /\ UNCHANGED <<rlVars, thVars, histVars, ptVars, ck, rp, cli>>

\* 323-326: the stream delivers an event: TimeoutError when the timeout has
\* been exceeded, else the event is appended to the buffer
StreamEvent ==
    /\ sa.pc = "l323"
    /\ sa.pending > 0
    /\ LET e == clock - sa.start_time IN
       IF e > sa.timeout
       THEN sa' = [sa EXCEPT !.pc = "l405", !.elapsed = e, !.error = "TimeoutError"]
       ELSE sa' = [sa EXCEPT !.full_response = Append(@, e), !.pending = @ - 1,
                             !.elapsed = e]
    /\ UNCHANGED <<rlVars, thVars, histVars, ptVars, ck, rp, cli>>

\* 323, 328: the stream ends and the loop is left: the buffer goes on to the
\* parse and the repair
StreamEnd ==
    /\ sa.pc = "l323"
    /\ sa.pending = 0
    /\ sa' = [sa EXCEPT !.pc = "l329", !.elapsed = clock - sa.start_time]
    /\ UNCHANGED <<rlVars, thVars, histVars, ptVars, ck, rp, cli>>

\* 404-410: the TimeoutError costs a retry; the next attempt, or the failure
StreamFailed ==
    /\ sa.pc = "l405"
    /\ LET rc == sa.retry_count + 1 IN
       IF rc < sa.max_retries
       THEN sa' = [sa EXCEPT !.retry_count = rc, !.pc = "l306"]
       ELSE sa' = [sa EXCEPT !.retry_count = rc, !.pc = "raised"]
    /\ UNCHANGED <<rlVars, thVars, histVars, ptVars, ck, rp, cli>>

\* the attempts on one chunk while time passes
NextStream ==
    \/ Tick
    \/ StreamRequest
    \/ StreamEvent
    \/ StreamEnd
    \/ StreamFailed

SpecStream == InitStream /\ [][NextStream]_vars

(***************************************************************************)
(* ReplicateProcessor.__init__ (replicate_processor.py:98-140) and the     *)
(* commands of the command line (cli.py)                                   *)
(***************************************************************************)

MaxFiles == 2       \* bound: text files a command finds under input_path

\* cli.py:153, 218 the two commands; "library" is a caller that constructs a
\* ReplicateProcessor itself and then calls process_text
Commands == {"process", "estimate"}

\* what requests.get / raise_for_status of lines 132-137 meet: a 2xx answer,
\* an HTTP error status, no connection (both RequestException)
VerifyOutcomes == {"ok", "HTTPError", "ConnectionError"}

\* a constructor that goes on without a token
TokenNeverMissing(api_token) == FALSE

\* replicate_processor.py:102, cli.py:149  `if not <token>`
TokenMissing(api_token) == ~api_token

\* a run of the program about to start: a command with its options, or a
\* caller about to construct a processor
InitCli ==
    /\ \E r \in Rates : ProcessorWith(r)
    /\ ck = NoChunking
    /\ rp = NoRepair
    /\ sa = NoStream
    /\ \/ \E c \in Commands, tok \in BOOLEAN, v \in VerifyOutcomes, d \in BOOLEAN,
            n \in 0..MaxFiles :
            cli = [NoCli EXCEPT !.pc = "c146", !.command = c, !.api_token = tok,
                                !.verify = v, !.dry_run = d, !.files = n]
       \/ \E tok \in BOOLEAN, v \in VerifyOutcomes :
            cli = [NoCli EXCEPT !.pc = "i99", !.command = "library",
                                !.api_token = tok, !.verify = v]

\* cli.py:143-151  the group callback: no token, exit status 1
CliGroup ==
    /\ cli.pc = "c146"
    /\ IF TokenMissing(cli.api_token)
       THEN cli' = [cli EXCEPT !.pc = "exited", !.outcome = "exit1"]
       ELSE cli' = [cli EXCEPT !.pc = IF cli.command = "process" THEN "i99"
                                       ELSE "e235"]
    /\ UNCHANGED <<rlVars, thVars, histVars, ptVars, ck, rp, sa>>

\* replicate_processor.py:99-109  the token is read; without one ValueError
\* is raised, with one the limiter is built
ProcessorInitToken ==
    /\ cli.pc = "i99"
    /\ IF TokenMissing(cli.api_token)
       THEN cli' = [cli EXCEPT !.pc = "raised", !.outcome = "ValueError"]
       ELSE cli' = [cli EXCEPT !.pc = "i112"]
    /\ UNCHANGED <<rlVars, thVars, histVars, ptVars, ck, rp, sa>>

\* replicate_processor.py:112, 130-140  _verify_api_token: one request to the
\* account endpoint; a RequestException leaves as ReplicateAPIError
ProcessorInitVerify ==
    /\ cli.pc = "i112"
    /\ IF cli.verify = "ok"
       THEN cli' = [cli EXCEPT !.pc = "constructed", !.network = @ + 1]
       ELSE cli' = [cli EXCEPT !.pc = "raised", !.network = @ + 1,
                               !.outcome = "ReplicateAPIError"]
    /\ UNCHANGED <<rlVars, thVars, histVars, ptVars, ck, rp, sa>>

\* cli.py:198-216, 85-102  process_file for the next file: the estimate is
\* printed; with --dry-run that is all, else process_text is called
CliProcessFile ==
    /\ cli.pc = "constructed"
    /\ cli.command = "process"
    /\ cli.file < cli.files
    /\ cli' = [cli EXCEPT !.file = @ + 1,
                          !.process_calls = IF cli.dry_run THEN @ ELSE @ + 1]
    /\ UNCHANGED <<rlVars, thVars, histVars, ptVars, ck, rp, sa>>

\* cli.py:235-269  the estimate for the next file
CliEstimateFile ==
    /\ cli.pc = "e235"
    /\ cli.file < cli.files
    /\ cli' = [cli EXCEPT !.file = @ + 1]
    /\ UNCHANGED <<rlVars, thVars, histVars, ptVars, ck, rp, sa>>

\* cli.py:207-209, 216, 255-257, 275  the command ends
CliFinish ==
    /\ \/ cli.pc = "constructed" /\ cli.command = "process"
       \/ cli.pc = "e235"
    /\ cli.file = cli.files
    /\ cli' = [cli EXCEPT !.pc = "done", !.outcome = "ok"]
    /\ UNCHANGED <<rlVars, thVars, histVars, ptVars, ck, rp, sa>>

NextCli ==
    \/ CliGroup
    \/ ProcessorInitToken
    \/ ProcessorInitVerify
    \/ CliProcessFile
    \/ CliEstimateFile
    \/ CliFinish

SpecCli == InitCli /\ [][NextCli]_vars

\* the caller has a processor to call process_text on
Constructed == cli.pc = "constructed" /\ cli.command = "library"

\* a run of the program, and the process_text calls made on the processor a
\* caller has constructed
NextConfig ==
    \/ NextCli
    \/ (Constructed /\ NextCall)

SpecConfig == InitCli /\ [][NextConfig]_vars

TypeOK ==
    /\ tokens \in Int
    /\ lock \in Threads \cup {NoThread}
    /\ clock \in 0..MaxTime

(***************************************************************************)
(* Properties of the RateLimiter                                           *)
(***************************************************************************)

Capacity == max_tokens * Scale

\* what a call in progress found on taking the lock, refilled to its `now`
RefilledAtCall(t) ==
    Min(Capacity, snap[t][1] + (call[t].now - snap[t][2]) * rate)

Returning(t, o) == pc[t] = "unlock" /\ call[t].op = o

\* C1: for every interleaving of acquire(n), 1 <= n <= max_tokens, and
\* release() calls, with any amount of time passing between the steps,
\* 0 <= tokens <= max_tokens in every state, so also after every return.
C1_TokensWithinBounds ==
    /\ 0 <= tokens
    /\ tokens <= Capacity

\* a release that follows a granted acquire, after time has passed, and
\* finds the bucket at its cap
C1_Witness ==
    \E t \in Threads :
        /\ Returning(t, "release")
        /\ call[t].seen.n > 0
        /\ call[t].now > call[t].seen.now
        /\ snap[t][1] < Capacity
        /\ tokens = Capacity

\* C2: refill, check and deduction are one atomic step: every concurrent run
\* gives each call the result, and leaves the bucket in the state, of the
\* same calls run one at a time in the order they took the lock; and within
\* an interval without refill the tokens granted never exceed the tokens
\* that were available when the interval began.
C2_Atomic ==
    /\ \A t \in Threads :
          pc[t] = "unlock" =>
              /\ call[t].ret = call[t].expect
              /\ tokens = seqTokens
              /\ last_update = seqLast
    /\ lock = NoThread => (tokens = seqTokens /\ last_update = seqLast)
    /\ epochGranted * Scale <= epochBase

\* one thread is refused the token another took in the same interval, while
\* the other thread is waiting for the lock again
C2_Witness ==
    \E t \in Threads, u \in Threads :
        /\ t # u
        /\ Returning(t, "acquire")
        /\ call[t].n = 1
        /\ call[t].ret = "false"
        /\ epochGranted > 0
        /\ (epochGranted + 1) * Scale > epochBase
        /\ pc[u] \in {"a74", "r94"}

\* C4: acquire(n), n <= max_tokens, refills and then grants exactly when the
\* refilled count is at least n, deducting exactly n; a refusal deducts
\* nothing.  A limiter no acquire was granted on is full, so
\* acquire(max_burst) succeeds; acquire(1) right after a granted
\* acquire(max_burst) is refused; acquire(1) succeeds once 1/rate seconds
\* have passed since the last grant.
C4_AcquireGrantsIffEnough ==
    \A t \in Threads :
        Returning(t, "acquire") =>
            LET refilled == RefilledAtCall(t)
                need == call[t].n * Scale
                seen == call[t].seen
            IN /\ call[t].ret = (IF refilled >= need THEN "true" ELSE "false")
               /\ tokens = (IF refilled >= need THEN refilled - need ELSE refilled)
               /\ (seen.n = 0 /\ call[t].n = max_tokens) => call[t].ret = "true"
               /\ (/\ seen.n = max_tokens
                   /\ ~seen.rel
                   /\ call[t].now = seen.now
                   /\ call[t].n = 1) => call[t].ret = "false"
               /\ (/\ seen.n > 0
                   /\ call[t].n = 1
                   /\ (call[t].now - seen.now) * rate >= Scale) => call[t].ret = "true"

\* acquire(1) granted again, one token's refill time after acquire(max_burst)
\* emptied the bucket
C4_Witness ==
    \E t \in Threads :
        /\ Returning(t, "acquire")
        /\ call[t].n = 1
        /\ call[t].seen.n = max_tokens
        /\ ~call[t].seen.rel
        /\ snap[t][1] = 0
        /\ (call[t].now - call[t].seen.now) * rate = Scale
        /\ call[t].ret = "true"

\* C5: acquire(n) with n > max_tokens raises ValueError whatever the token
\* count and the time, and the raising step changes neither tokens nor
\* last_update and does not take the lock.
C5_TooManyRaises ==
    /\ [](\A t \in Threads :
            (call[t].op = "acquire" /\ call[t].n > max_tokens)
                => pc[t] \in {"a69", "raised"})
    /\ [][\A t \in Threads :
            (pc[t] = "a69" /\ call[t].n > max_tokens /\ pc'[t] # pc[t])
                => /\ pc'[t] = "raised"
                   /\ call'[t].ret = "raise"
                   /\ tokens' = tokens
                   /\ last_update' = last_update
                   /\ lock' = lock]_vars

\* the ValueError raised while the bucket is empty, time has passed and
\* another thread holds the lock
C5_Witness ==
    \E t \in Threads, u \in Threads :
        /\ pc[t] = "raised"
        /\ call[t].n = max_tokens + 1
        /\ lock = u
        /\ tokens = 0
        /\ clock > last_update

C7_ReleaseAddsOne ==
    /\ [](\A t \in Threads :
            Returning(t, "release") =>
                /\ refills[t] = 1
                /\ tokens = Min(Capacity, RefilledAtCall(t) + Scale))
    /\ [][/\ tokens' < tokens =>
               \E t \in Threads :
                   /\ pc[t] = "a77" /\ pc'[t] = "unlock"
                   /\ call'[t].ret = "true"
                   /\ tokens' = tokens - call[t].n * Scale
          /\ tokens' > tokens =>
               \E t \in Threads :
                   \/ /\ pc[t] = "t48"
                      /\ tokens' - tokens <= (clock - last_update) * rate
                   \/ /\ pc[t] = "r96"
                      /\ tokens' = Min(Capacity, tokens + Scale)]_vars

\* release() returns one token after an acquire that took two
C7_Witness ==
    \E t \in Threads :
        /\ Returning(t, "release")
        /\ call[t].seen.n = 2
        /\ call[t].now = call[t].seen.now
        /\ tokens = Scale

(***************************************************************************)
(* Properties of process_text                                              *)
(***************************************************************************)

Admitted == pt.acquires = 1 /\ pt.outcome # "rate_limit"
InTry == pt.pc \in {"l292", "l299", "l306", "l323", "l405", "l413", "l424"}

\* C3: within any time window of length T the calls admitted past the rate
\* gate number at most max_burst + rate * T.
C3_RateDiscipline ==
    winStart # None =>
        admitted * Scale <= ProcessorMaxBurst * Scale + rate * (clock - winStart)

\* C8: an admitted process_text call makes exactly one acquire, at entry, and
\* exactly one release, at exit, on every way out (result, unknown template,
\* retries exhausted, no results), whatever the number of chunks and attempts.
C8_OneAcquireOneRelease ==
    /\ pt.acquires <= 1
    /\ pt.releases <= pt.acquires
    /\ InTry => (pt.acquires = 1 /\ pt.releases = 0 /\ held = 1)
    /\ (pt.pc \in {"returned", "raised"} /\ Admitted)
           => (pt.acquires = 1 /\ pt.releases = 1 /\ held = 0)

\* a call that gave up on its second chunk after several requests and a sleep
C8_Witness ==
    /\ pt.pc = "raised"
    /\ pt.outcome = "api_error"
    /\ pt.chunk = 2
    /\ pt.requests >= 3
    /\ pt.sleeps >= 1
    /\ pt.releases = 1

\* C9: when acquire returns False process_text raises "Rate limit exceeded"
\* at once: no request, no sleep, no release; releases never exceed the
\* granted acquires.
C9_RefusalRaisesAtOnce ==
    /\ pt.outcome = "rate_limit" =>
           /\ pt.pc = "raised"
           /\ pt.acquires = 1
           /\ pt.requests = 0
           /\ pt.sleeps = 0
           /\ pt.releases = 0
           /\ pt.chunk = 0
    /\ held >= 0
    /\ others >= 0

\* a call refused while ten other calls hold the bucket's tokens
C9_Witness ==
    /\ pt.pc = "raised"
    /\ pt.outcome = "rate_limit"
    /\ others = ProcessorMaxBurst
    /\ tokens < Scale

\* C10: for max_retries >= 0, a chunk whose first f attempts fail is requested
\* exactly min(f + 1, max_retries) times; it succeeds iff f < max_retries, and
\* otherwise process_text raises.  The count starts again for every chunk.
C10_RetryBound ==
    LET budget == Min(pt.fails + 1, pt.max_retries) IN
    /\ pt.invoked <= budget
    /\ (pt.pc \in {"l299", "l413"} /\ pt.chunk > 1) =>
           /\ pt.invoked = budget
           /\ pt.chunk_state = "SUCCEEDED" <=> pt.fails < pt.max_retries
    /\ pt.chunk_state = "FAILED" =>
           /\ pt.invoked = budget
           /\ pt.fails >= pt.max_retries
           /\ pt.pc \in {"l424", "raised"}
           /\ pt.outcome = "api_error"
    /\ pt.pc = "returned" => ~pt.doomed
    /\ (pt.pc = "raised" /\ Admitted /\ pt.template_ok) => pt.doomed

\* the second chunk used its whole budget and succeeded on the last attempt,
\* after the first chunk had already failed an attempt
C10_Witness ==
    /\ pt.pc = "l299"
    /\ pt.chunk = 3
    /\ pt.earlier = 1
    /\ pt.max_retries = 2
    /\ pt.fails = 1
    /\ pt.invoked = 2
    /\ pt.chunk_state = "SUCCEEDED"

\* the moves of one chunk (PENDING -> STREAMING -> SUCCEEDED | RETRYING ->
\* STREAMING | FAILED)
AllowedMoves ==
    {<<"PENDING", "STREAMING">>, <<"STREAMING", "SUCCEEDED">>,
     <<"STREAMING", "RETRYING">>, <<"RETRYING", "STREAMING">>,
     <<"STREAMING", "FAILED">>}

\* the chunk whose state pt.chunk_state is, 0 before the first: the for loop
\* has moved on from a chunk that succeeded, and from one whose while loop
\* was never entered
Described ==
    IF pt.chunk_state = "none" THEN 0
    ELSE IF pt.chunk_state = "SUCCEEDED"
              \/ (pt.chunk_state = "PENDING" /\ pt.pc # "l306")
    THEN pt.chunk - 1
    ELSE pt.chunk

C12_SequentialAllOrNothing ==
    /\ [](pt.pc \in {"l306", "l323", "l405"} =>
            (pt.results = pt.chunk - 1 /\ Len(pt.out) = pt.chunk - 1))
    /\ [](pt.pc = "returned" =>
            (pt.results = pt.nchunks /\ pt.chunk_state = "SUCCEEDED"))
    /\ [](pt.chunk_state = "FAILED" =>
            /\ pt.pc \in {"l424", "raised"}
            /\ pt.outcome = "api_error"
            /\ pt.value = NoValue)
    /\ [][pt.chunk_state = "FAILED" =>
            (pt'.requests <= pt.requests /\ pt'.pc # "returned")]_vars

\* the second of three chunks failed after the first had succeeded: the call
\* raised, with one result in hand and the third chunk never requested
C12_Witness ==
    /\ pt.pc = "raised"
    /\ pt.chunk_state = "FAILED"
    /\ pt.nchunks = 3
    /\ pt.chunk = 2
    /\ pt.results = 1
    /\ pt.requests = pt.invoked + 1

\* C13: the formatted_text returned is the formatted_text recovered for the
\* chunks c1..ck, in chunk order, joined by single spaces; the metadata
\* returned is the metadata recovered for c1, and that of no later chunk.
C13_MergeRule ==
    pt.pc = "returned" =>
        LET k == pt.nchunks
            text == pt.value.formatted_text
        IN /\ Len(text) = 2 * k - 1
           /\ \A i \in 1..k : <<text[2 * i - 1]>> = Recovered(i).formatted_text
           /\ \A i \in 1..(k - 1) : text[2 * i] = " "
           /\ pt.value.metadata = Recovered(1).metadata
           /\ \A i \in 2..k : pt.value.metadata # Recovered(i).metadata

\* three chunks merged, after an attempt on an earlier chunk had failed
C13_Witness ==
    /\ pt.pc = "returned"
    /\ pt.nchunks = 3
    /\ pt.earlier = 1
    /\ pt.value.formatted_text = <<"1", " ", "2", " ", "3">>
    /\ pt.value.metadata = "1"

(***************************************************************************)
(* Properties of the repair of a response buffer                           *)
(***************************************************************************)

\* the metadata object the response held, {} when it held none
RecoveredDict(b) ==
    IF b.kind = "object" /\ b.metadata.type = "dict" THEN b.metadata.d ELSE EmptyDict

C15_TextNeverEmpty ==
    (rp.pc = "appended" /\ rp.stage = "fallback") => rp.result.formatted_text # <<>>

\* C16: for every completed response buffer (an object, a list or a number,
\* prose, truncated text, nothing) the repair gives a result on that same
\* attempt and never raises: no buffer costs a retry or makes process_text
\* fail.
C16_RepairNeverRaises ==
    /\ rp.pc \notin {"l405", "raised"}
    /\ rp.retry_count = 0
    /\ rp.error = "none"

\* a JSON object with metadata {summary, tags, key_points} and a
\* formatted_text string, and nothing around it
WellFormed(b) ==
    /\ b.kind = "object"
    /\ b.prose = <<>>
    /\ b.metadata.type = "dict"
    /\ \A k \in Keys : b.metadata.d[k] # Missing
    /\ b.formatted_text.type = "str"

\* C17: for a well-formed response the result's metadata and formatted_text
\* are the parsed values: no field defaulted, no character altered.
C17_WellFormedIsIdentity ==
    (rp.pc = "appended" /\ WellFormed(rp.full_response)) =>
        /\ rp.result.metadata = rp.full_response.metadata.d
        /\ rp.result.formatted_text = rp.full_response.formatted_text.s

(***************************************************************************)
(* Properties of _chunk_text                                               *)
(***************************************************************************)

RECURSIVE Concat(_)
Concat(seqs) == IF seqs = <<>> THEN <<>> ELSE Head(seqs) \o Concat(Tail(seqs))

\* C18: for every text and every max_chunk_size >= 1 the chunks, concatenated
\* in order, are the text (while the loop runs: the text up to current_pos);
\* a text of at most 4 * max_chunk_size characters comes back as one chunk
\* equal to it.
C18_ChunkRoundTrip ==
    /\ ck.pc = "c237" => Concat(ck.chunks) = SubSeq(ck.text, 1, ck.current_pos)
    /\ ck.pc = "returned" =>
          /\ Concat(ck.chunks) = ck.text
          /\ Len(ck.text) <= CharsPerToken * ck.max_chunk_size => ck.chunks = <<ck.text>>

\* a text cut twice, once at a sentence end and once at a newline
C18_Witness ==
    /\ ck.pc = "returned"
    /\ Len(ck.chunks) = 3
    /\ ck.chunks[1][Len(ck.chunks[1])] = "."
    /\ ck.chunks[2][Len(ck.chunks[2])] = "\n"

\* C19: for any text, the empty string included, _chunk_text returns a
\* sequence that is not empty and whose chunks are all non-empty.
C19_ChunksNonEmpty ==
    ck.pc = "returned" =>
        /\ ck.chunks # <<>>
        /\ \A i \in 1..Len(ck.chunks) : ck.chunks[i] # <<>>

\* C20: every chunk has at most 4 * max_chunk_size characters, whatever break
\* point made the cut, and the last chunk too.
C20_ChunkLengthBound ==
    \A i \in 1..Len(ck.chunks) :
        Len(ck.chunks[i]) <= CharsPerToken * ck.max_chunk_size

\* a cut after a newline that is the last character of the window, and a
\* last chunk
C20_Witness ==
    /\ ck.pc = "returned"
    /\ Len(ck.chunks) = 2
    /\ Len(ck.chunks[1]) = CharsPerToken * ck.max_chunk_size
    /\ ck.chunks[1][Len(ck.chunks[1])] = "\n"

\* C21: _chunk_text returns for every text and every chunk size, and every
\* iteration of its loop that goes on to another moves current_pos forward by
\* at least one character.
C21_ChunkTerminates ==
    /\ [][(ck.pc = "c237" /\ ck'.pc = "c237" /\ ck' # ck)
              => ck'.current_pos > ck.current_pos]_vars
    /\ <>(ck.pc = "returned")

(***************************************************************************)
(* Properties of construction and of the command line                      *)
(***************************************************************************)

\* C22: configuration errors are fatal and not retried.  Without
\* REPLICATE_API_TOKEN the construction raises before any request is made (no
\* verification request), and no processor exists to call; a verification
\* that fails raises ReplicateAPIError after its one request; an unknown
\* template key ends process_text with no request to the collaborator, no
\* attempt counted and no backoff sleep.
C22_ConfigErrorsFatal ==
    /\ ~cli.api_token =>
           /\ cli.network = 0
           /\ cli.pc # "constructed"
           /\ pt = NoProcess
           /\ cli.pc = "raised" => cli.outcome = "ValueError"
    /\ cli.network <= 1
    /\ (cli.api_token /\ cli.verify # "ok") =>
           /\ cli.pc # "constructed"
           /\ pt = NoProcess
           /\ cli.pc = "raised" => (cli.outcome = "ReplicateAPIError" /\ cli.network = 1)
    /\ (~pt.template_ok /\ pt.pc \notin {"idle", "l287"} /\ Admitted) =>
           /\ pt.pc \in {"l292", "l424", "raised"}
           /\ pt.requests = 0
           /\ pt.sleeps = 0
           /\ pt.retry_count = 0
           /\ pt.chunk = 0
           /\ pt.pc = "raised" => pt.outcome = "api_error"

\* a caller whose construction made its one verification request, and whose
\* process_text call with an unknown template key then raised without a request
C22_Witness ==
    /\ Constructed
    /\ cli.network = 1
    /\ pt.pc = "raised"
    /\ ~pt.template_ok
    /\ pt.requests = 0
    /\ pt.sleeps = 0

\* C23: the process command with --dry-run, and the estimate command, make no
\* network request: no request to the account endpoint, no process_text
\* call; so neither ends with a transport error.
C23_DryRunNoNetwork ==
    (cli.command = "estimate" \/ (cli.command = "process" /\ cli.dry_run)) =>
        /\ cli.network = 0
        /\ cli.process_calls = 0
        /\ cli.outcome # "ReplicateAPIError"

(***************************************************************************)
(* Properties of the retry loop                                            *)
(***************************************************************************)

\* C24: after a failed attempt with attempts remaining, process_text sleeps
\* min(2^a, 5) seconds, a being the 0-based number of the attempt that just
\* failed (the retry counter before it is increased): 1 s after the first
\* failure, then 2 s, 4 s, 5 s; no sleep is longer than 5 s.
C24_BackoffSchedule ==
    /\ pt.chunk_state = "RETRYING" =>
           pt.slept = Min(2 ^ (pt.retry_count - 1), BackoffCap)
    /\ pt.slept <= BackoffCap

\* C25: an exception of the repair is handled as a failure of the
\* collaborator is: whatever the exception, line 404 counts one attempt of
\* the chunk's max_retries, sleeps the same backoff when attempts remain and
\* raises when they do not; no result of the failed attempt is kept.
C25_RepairFailureIsRetried ==
    /\ [](rp.pc \in {"l405", "raised"} =>
            (rp.result = NoResult /\ rp.error \in TransportErrors \cup RepairErrors))
    /\ [][(rp.pc = "l405" /\ rp' # rp) =>
            LET rc == rp.retry_count + 1 IN
            /\ rp'.retry_count = rc
            /\ rp'.last_error = rp.error
            /\ rp'.result = NoResult
            /\ IF rc < rp.max_retries
               THEN /\ rp'.pc = "l306"
                    /\ rp'.sleeps = rp.sleeps + 1
                    /\ rp'.slept = BackoffSeconds(rc)
               ELSE /\ rp'.pc = "raised"
                    /\ rp'.sleeps = rp.sleeps]_vars

\* a list where an object was expected cost the first of two attempts: the
\* backoff sleep was made and the second request is about to be
C25_Witness ==
    /\ rp.pc = "l306"
    /\ rp.max_retries = 2
    /\ rp.retry_count = 1
    /\ rp.last_error = "AttributeError"
    /\ rp.sleeps = 1
    /\ rp.slept = BackoffSeconds(1)
    /\ rp.requests = 1

\* C26: once the time since the attempt began reading its stream exceeds the
\* timeout before the stream has completed, the attempt ends as a timeout
\* failure that counts against the retries: its buffer is not handed to the
\* repair, and no fragment delivered after the deadline is in the buffer.
\* The time is counted from the start of the present attempt.
C26_AttemptTimeout ==
    /\ sa.pc = "l329" => sa.elapsed <= sa.timeout
    /\ \A i \in 1..Len(sa.full_response) : sa.full_response[i] <= sa.timeout
    /\ sa.pc = "l405" => (sa.error = "TimeoutError" /\ sa.elapsed > sa.timeout)
    /\ sa.pc = "raised" => sa.retry_count = sa.max_retries
    /\ sa.pc \in {"l323", "l329", "l405"} => sa.elapsed <= clock - sa.start_time

\* the 0-based positions in the window text[a:b] where sub begins and ends
\* inside the window
Places(sub, a, b) ==
    {i \in a..(b - Len(sub)) : \A k \in 1..Len(sub) : ck.text[i + k] = sub[k]}

Last(S) == CHOOSE i \in S : \A j \in S : j <= i

C28_RefillAmount ==
    /\ [][\A t \in SeqThreads :
            (pc[t] = "t48" /\ pc'[t] # "t48") =>
                /\ tokens' = tokens + Min((clock - last_update) * rate,
                                          Capacity - tokens)
                /\ last_update' = clock
                /\ pc'[t] \in {"a77", "r96"}]_vars
    /\ [](\A m \in last_update..clock, k \in 1..max_tokens :
            LET a == AcquireAtomic(tokens, last_update, m, k) IN
            a.ret = "false" =>
                /\ a.tokens = AddTokens(tokens, last_update, m)
                /\ AddTokens(a.tokens, a.last_update, clock)
                       = AddTokens(tokens, last_update, clock))

\* a refill of half a token that follows a refused acquire, itself half a
\* token's time after the acquire that emptied the bucket
C28_Witness ==
    \E t \in SeqThreads :
        /\ pc[t] \in {"a77", "r96"}
        /\ grant.n = max_tokens
        /\ ~grant.rel
        /\ grant.now < snap[t][2]
        /\ snap[t][2] < call[t].now
        /\ snap[t][1] = (snap[t][2] - grant.now) * rate
        /\ snap[t][1] < Scale
        /\ tokens = snap[t][1] + (call[t].now - snap[t][2]) * rate
        /\ tokens = (call[t].now - grant.now) * rate

\* C30: acquire(n) adds no token, for every n it accepts (n <= max_tokens,
\* 0 and negative n included): when it returns, tokens is no larger than the
\* refilled count it began with, and 0 <= tokens <= max_tokens.
C30_AcquireNeverAdds ==
    \A t \in SeqThreads :
        Returning(t, "acquire") =>
            /\ tokens <= RefilledAtCall(t)
            /\ 0 <= tokens
            /\ tokens <= Capacity

\* where a thread is while it holds the lock: at the refill, at the check and
\* deduction, at the addition, or leaving the `with` block
UnderLock == {"t48", "a77", "r96", "unlock"}

====
